---- MODULE Spec2Model ----
(***************************************************************************)
(* penlog (python/penlog.py): a Logger writes one JSON object per line to  *)
(* a text stream; module-level functions delegate to a replaceable default *)
(* Logger.                                                                 *)
(***************************************************************************)
EXTENDS Integers, Sequences, FiniteSets, TLC

\* ---------------------------------------------------------------- bounds
MaxRecords == 2     \* emissions in one behaviour
MaxLoggers == 2     \* Logger instances alive in one behaviour
MaxSec == 1         \* seconds the wall clock can show
MaxSetbacks == 1    \* times the wall clock is set back

\* ---------------------------------------------------------------- inputs
Components == {"root", "fsck"}
Hosts == {"hostA", "hostB"}
Sinks == {"stderr", "file"}
Data == {"d1", "d2"}
Handles == {"h1", "h2"}
USecs == {0, 500000}
Threads == {"t1", "t2"}

\* Sinks whose write of a whole line is one atomic step under concurrent
\* access; the others take the text and the line end as separate writes.
AtomicSinks == {"file"}

\* ------------------------------------------------------------ MessageType
MessageType ==
    [ERROR |-> "error", WARNING |-> "warning", INFO |-> "info",
     DEBUG |-> "debug", SUMMARY |-> "summary", READ |-> "read",
     WRITE |-> "write", PREAMBLE |-> "preamble"]

\* The members log_msg is meant for.
MsgTypes == {"ERROR", "WARNING", "INFO", "DEBUG", "SUMMARY"}

\* ------------------------------------------------------------------ dicts
\* A dict is the sequence of its <<key, value>> items in insertion order.
Keys(d) == {d[i][1] : i \in DOMAIN d}

\* d[k] = v: an existing key keeps its position, a new key goes last.
DictSet(d, k, v) ==
    IF k \in Keys(d)
    THEN [i \in DOMAIN d |-> IF d[i][1] = k THEN <<k, v>> ELSE d[i]]
    ELSE Append(d, <<k, v>>)

\* json.dumps: the items in order; an enum member is written as its value.
dumps(d) ==
    [i \in DOMAIN d |->
        IF d[i][1] = "type" THEN <<"type", MessageType[d[i][2]]>> ELSE d[i]]

\* json.loads of one line's text: the object as a function of its keys.
loads(text) ==
    [k \in Keys(text) |-> text[CHOOSE i \in DOMAIN text : text[i][1] = k][2]]

\* ------------------------------------------------------------------ clock
Clocks == [sec : 0..MaxSec, usec : USecs]

ClockLess(a, b) == a.sec < b.sec \/ (a.sec = b.sec /\ a.usec < b.usec)

\* datetime.isoformat(): the fraction is left out when it is zero.
isoformat(c) == IF c.usec = 0 THEN <<c.sec>> ELSE <<c.sec, c.usec>>

\* Order of two timestamps as texts (a proper prefix sorts first).
TsLeq(a, b) ==
    \/ a[1] < b[1]
    \/ a[1] = b[1] /\ Len(a) = 1
    \/ a[1] = b[1] /\ Len(a) = 2 /\ Len(b) = 2 /\ a[2] <= b[2]

\* ------------------------------------------------------------------ state
VARIABLES
    loggers,         \* the Logger instances, by identity (creation order)
    default_logger,  \* the module-level _logger
    hostname,        \* what socket.gethostname() answers now
    clock,           \* what datetime.now() answers now
    buffer,          \* per sink: chunks written and not yet flushed
    written,         \* per sink: chunks visible in the underlying sink
    hist,            \* emissions so far, in order (history)
    setbacks,        \* times the clock was set back so far (history)
    last,            \* the last emitting call made (history)
    made,            \* each Logger instance as it was constructed (history)
    options,         \* the components given to set_options so far (history)
    pc,              \* per thread: where it is inside print()
    pending          \* per thread: the emission it is writing

vars == <<loggers, default_logger, hostname, clock, buffer, written, hist,
          setbacks, last, made, options, pc, pending>>

TextChunk(text) == [kind |-> "text", text |-> text]
NL == [kind |-> "nl", text |-> <<>>]

\* Everything written to a sink, in order, flushed or not.
Stream(f) == written[f] \o buffer[f]

\* The lines of a stream: for each line end, the texts written since the
\* line end before it.
RECURSIVE Lines(_)
Lines(s) ==
    IF \A i \in DOMAIN s : s[i].kind # "nl"
    THEN <<>>
    ELSE LET n == CHOOSE i \in DOMAIN s :
                    /\ s[i].kind = "nl"
                    /\ \A j \in 1..(i - 1) : s[j].kind # "nl"
         IN  <<[j \in 1..(n - 1) |-> s[j].text]>>
                 \o Lines(SubSeq(s, n + 1, Len(s)))

\* The texts written after the last line end.
Rest(s) ==
    LET ends == {i \in DOMAIN s : s[i].kind = "nl"}
        from == IF ends = {} THEN 0
                ELSE CHOOSE i \in ends : \A j \in ends : j <= i
    IN  [j \in 1..(Len(s) - from) |-> s[from + j].text]

Logger(component, flush, file_) ==
    [host |-> hostname, component |-> component, flush |-> flush,
     file |-> file_]

NoCall == [op |-> "none", self |-> 0, data |-> "", type_ |-> "", handle |-> ""]
NoPending == [self |-> 0, text |-> <<>>]

Init ==
    /\ hostname = "hostA"
    /\ loggers = <<Logger("root", FALSE, "stderr")>>
    /\ default_logger = 1
    /\ clock = [sec |-> 0, usec |-> 0]
    /\ buffer = [f \in Sinks |-> <<>>]
    /\ written = [f \in Sinks |-> <<>>]
    /\ hist = <<>>
    /\ setbacks = 0
    /\ last = NoCall
    /\ made = loggers
    /\ options = <<>>
    /\ pc = [t \in Threads |-> "idle"]
    /\ pending = [t \in Threads |-> NoPending]

\* ----------------------------------------------------------------- Logger
\* Mutant: a dict that brings its own host is taken to be complete and
\* gets no component.
Logger_log_record_partial(self, msg) ==
    LET m1 == IF "host" \in Keys(msg) THEN msg
              ELSE DictSet(msg, "component", loggers[self].component)
        m2 == DictSet(m1, "host", loggers[self].host)
        m3 == DictSet(m2, "timestamp", isoformat(clock))
    IN  dumps(m3)

\* Mutant: the time is read once, when the module is loaded.
Logger_log_record_stale(self, msg) ==
    LET m1 == DictSet(msg, "component", loggers[self].component)
        m2 == DictSet(m1, "host", loggers[self].host)
        m3 == DictSet(m2, "timestamp", isoformat([sec |-> 0, usec |-> 0]))
    IN  dumps(m3)

\* Mutant: the host is looked up at each emission.
Logger_log_record_lookup(self, msg) ==
    LET m1 == DictSet(msg, "component", loggers[self].component)
        m2 == DictSet(m1, "host", hostname)
        m3 == DictSet(m2, "timestamp", isoformat(clock))
    IN  dumps(m3)

\* The record _log serialises: component, host and a fresh timestamp set
\* on the caller's dict.
Logger_log_record(self, msg) ==
    LET m1 == DictSet(msg, "component", loggers[self].component)
        m2 == DictSet(m1, "host", loggers[self].host)
        m3 == DictSet(m2, "timestamp", isoformat(clock))
    IN  dumps(m3)

\* Mutant: the flush argument is dropped.
print_unflushed(text, file_, flush) ==
    /\ buffer' = [buffer EXCEPT ![file_] = @ \o <<TextChunk(text), NL>>]
    /\ UNCHANGED written

\* print(text, file=file_, flush=flush) run to completion.
print(text, file_, flush) ==
    LET out == buffer[file_] \o <<TextChunk(text), NL>>
    IN  IF flush
        THEN /\ written' = [written EXCEPT ![file_] = @ \o out]
             /\ buffer' = [buffer EXCEPT ![file_] = <<>>]
        ELSE /\ buffer' = [buffer EXCEPT ![file_] = out]
             /\ UNCHANGED written

Emitted(self, text) ==
    [self |-> self, file |-> loggers[self].file, text |-> text,
     epoch |-> setbacks]

Logger_log(self, msg) ==
    LET text == Logger_log_record(self, msg)
    IN  /\ Len(hist) < MaxRecords
        /\ print(text, loggers[self].file, loggers[self].flush)
        /\ hist' = Append(hist, Emitted(self, text))
        /\ UNCHANGED <<loggers, default_logger, hostname, clock, setbacks,
                       pc, pending>>

preamble_msg(self, data) ==
    <<<<"host", loggers[self].host>>, <<"type", "PREAMBLE">>,
      <<"data", data>>>>

\* Mutant: handle and data change places.
read_msg_swapped(data, handle) ==
    <<<<"type", "READ">>, <<"handle", data>>, <<"data", handle>>>>

read_msg(data, handle) ==
    <<<<"type", "READ">>, <<"handle", handle>>, <<"data", data>>>>

write_msg(data, handle) ==
    <<<<"type", "WRITE">>, <<"handle", handle>>, <<"data", data>>>>

msg_msg(data, type_) == <<<<"type", type_>>, <<"data", data>>>>

Logger_log_preamble(self, data) == Logger_log(self, preamble_msg(self, data))

Logger_log_read(self, data, handle) == Logger_log(self, read_msg(data, handle))

Logger_log_write(self, data, handle) ==
    Logger_log(self, write_msg(data, handle))

\* Mutant: the type given is dropped on the way.
Logger_log_msg_untyped(self, data, type_) ==
    Logger_log(self, msg_msg(data, "INFO"))

Logger_log_msg(self, data, type_) == Logger_log(self, msg_msg(data, type_))

\* log_msg called without type_: the default applies.
Logger_log_msg_default(self, data) == Logger_log_msg(self, data, "INFO")

Logger_log_debug(self, data) == Logger_log_msg(self, data, "DEBUG")

Logger_log_info(self, data) == Logger_log_msg(self, data, "INFO")

Logger_log_warning(self, data) == Logger_log_msg(self, data, "WARNING")

Logger_log_error(self, data) == Logger_log_msg(self, data, "ERROR")

Logger_log_summary(self, data) == Logger_log_msg(self, data, "SUMMARY")

\* ----------------------------------------------------------- module level
\* Mutant: the new Logger is constructed and the default is not rebound.
set_options_unbound(component) ==
    /\ Len(loggers) < MaxLoggers
    /\ loggers' = Append(loggers, Logger(component, FALSE, "stderr"))
    /\ UNCHANGED <<default_logger, hostname, clock, buffer, written, hist,
                   setbacks, pc, pending>>

\* Mutant: the default Logger is reconfigured in place.
set_options_inplace(component) ==
    /\ loggers' = [loggers EXCEPT ![default_logger].component = component,
                                  ![default_logger].host = hostname]
    /\ UNCHANGED <<default_logger, hostname, clock, buffer, written, hist,
                   setbacks, pc, pending>>

set_options(component) ==
    /\ Len(loggers) < MaxLoggers
    /\ loggers' = Append(loggers, Logger(component, FALSE, "stderr"))
    /\ default_logger' = Len(loggers) + 1
    /\ UNCHANGED <<hostname, clock, buffer, written, hist, setbacks, pc,
                   pending>>

log_preamble(data) == Logger_log_preamble(default_logger, data)

\* type_ is accepted and not handed on.
log_msg(data, type_) == Logger_log_msg_default(default_logger, data)

log_msg_default(data) == log_msg(data, "INFO")

log_write(data, handle) == Logger_log_write(default_logger, data, handle)

log_read(data, handle) == Logger_log_read(default_logger, data, handle)

log_debug(data) == log_msg(data, "DEBUG")

log_info(data) == log_msg(data, "INFO")

log_warning(data) == log_msg(data, "WARNING")

log_error(data) == log_msg(data, "ERROR")

log_summary(data) == log_msg(data, "SUMMARY")

\* ------------------------------------------------------------ calls made
Called(op, self, data, type_, handle) ==
    /\ last' = [op |-> op, self |-> self, data |-> data, type_ |-> type_,
                 handle |-> handle]
    /\ UNCHANGED <<made, options>>

\* The instances constructed in the step are recorded as constructed.
Constructed ==
    made' = IF Len(loggers') > Len(made)
            THEN Append(made, loggers'[Len(loggers')])
            ELSE made

\* A client constructs a Logger of its own.
NewLogger(component, flush, file_) ==
    /\ Len(loggers) < MaxLoggers
    /\ loggers' = Append(loggers, Logger(component, flush, file_))
    /\ Constructed
    /\ UNCHANGED <<default_logger, hostname, clock, buffer, written, hist,
                   setbacks, last, options, pc, pending>>

SetOptions(C) ==
    \E c \in C :
        /\ Len(options) < MaxLoggers - 1
        /\ set_options(c)
        /\ options' = Append(options, c)
        /\ Constructed
        /\ UNCHANGED last

\* The calls of the Logger methods, inputs drawn from D, H and T.
MethodPreamble(D) ==
    \E self \in DOMAIN loggers, d \in D :
        Logger_log_preamble(self, d)
            /\ Called("Logger.log_preamble", self, d, "", "")

MethodRead(D, H) ==
    \E self \in DOMAIN loggers, d \in D, h \in H :
        Logger_log_read(self, d, h) /\ Called("Logger.log_read", self, d, "", h)

MethodWrite(D, H) ==
    \E self \in DOMAIN loggers, d \in D, h \in H :
        Logger_log_write(self, d, h)
            /\ Called("Logger.log_write", self, d, "", h)

MethodMsg(D, T) ==
    \E self \in DOMAIN loggers, d \in D, t \in T :
        Logger_log_msg(self, d, t) /\ Called("Logger.log_msg", self, d, t, "")

MethodMsgDefault(D) ==
    \E self \in DOMAIN loggers, d \in D :
        Logger_log_msg_default(self, d)
            /\ Called("Logger.log_msg", self, d, "", "")

MethodDebug(D) ==
    \E self \in DOMAIN loggers, d \in D :
        Logger_log_debug(self, d) /\ Called("Logger.log_debug", self, d, "", "")

MethodInfo(D) ==
    \E self \in DOMAIN loggers, d \in D :
        Logger_log_info(self, d) /\ Called("Logger.log_info", self, d, "", "")

MethodWarning(D) ==
    \E self \in DOMAIN loggers, d \in D :
        Logger_log_warning(self, d)
            /\ Called("Logger.log_warning", self, d, "", "")

MethodError(D) ==
    \E self \in DOMAIN loggers, d \in D :
        Logger_log_error(self, d) /\ Called("Logger.log_error", self, d, "", "")

MethodSummary(D) ==
    \E self \in DOMAIN loggers, d \in D :
        Logger_log_summary(self, d)
            /\ Called("Logger.log_summary", self, d, "", "")

\* The calls of the module-level functions.
FreePreamble(D) ==
    \E d \in D :
        log_preamble(d) /\ Called("log_preamble", default_logger, d, "", "")

FreeRead(D, H) ==
    \E d \in D, h \in H :
        log_read(d, h) /\ Called("log_read", default_logger, d, "", h)

FreeWrite(D, H) ==
    \E d \in D, h \in H :
        log_write(d, h) /\ Called("log_write", default_logger, d, "", h)

FreeMsg(D, T) ==
    \E d \in D, t \in T :
        log_msg(d, t) /\ Called("log_msg", default_logger, d, t, "")

FreeMsgDefault(D) ==
    \E d \in D :
        log_msg_default(d) /\ Called("log_msg", default_logger, d, "", "")

FreeDebug(D) ==
    \E d \in D : log_debug(d) /\ Called("log_debug", default_logger, d, "", "")

FreeInfo(D) ==
    \E d \in D : log_info(d) /\ Called("log_info", default_logger, d, "", "")

FreeWarning(D) ==
    \E d \in D :
        log_warning(d) /\ Called("log_warning", default_logger, d, "", "")

FreeError(D) ==
    \E d \in D : log_error(d) /\ Called("log_error", default_logger, d, "", "")

FreeSummary(D) ==
    \E d \in D :
        log_summary(d) /\ Called("log_summary", default_logger, d, "", "")

\* ------------------------------------------------------------ environment
\* The machine is renamed.
SetHostname ==
    /\ \E h \in Hosts \ {hostname} : hostname' = h
    /\ UNCHANGED <<loggers, default_logger, clock, buffer, written, hist,
                   setbacks, last, made, options, pc, pending>>

\* Wall-clock time passes.
Tick ==
    /\ \E c \in Clocks : ClockLess(clock, c) /\ clock' = c
    /\ UNCHANGED <<loggers, default_logger, hostname, buffer, written, hist,
                   setbacks, last, made, options, pc, pending>>

\* The wall clock is set back (clock adjustment, end of daylight saving).
ClockSetBack ==
    /\ setbacks < MaxSetbacks
    /\ \E c \in Clocks : ClockLess(c, clock) /\ clock' = c
    /\ setbacks' = setbacks + 1
    /\ UNCHANGED <<loggers, default_logger, hostname, buffer, written, hist,
                   last, made, options, pc, pending>>

\* A sink empties part of its buffer by its own policy.
SinkDrain ==
    /\ \E f \in Sinks, n \in 1..(2 * MaxRecords) :
        /\ n <= Len(buffer[f])
        /\ written' = [written EXCEPT ![f] = @ \o SubSeq(buffer[f], 1, n)]
        /\ buffer' = [buffer EXCEPT ![f] = SubSeq(@, n + 1, Len(@))]
    /\ UNCHANGED <<loggers, default_logger, hostname, clock, hist, setbacks,
                   last, made, options, pc, pending>>

\* ---------------------------------------------------------------- threads
\* Thread t calls self._log(msg): the record is built and serialised, and
\* print() is entered.
Thread_log(t, self, msg) ==
    LET text == Logger_log_record(self, msg)
    IN  /\ pc[t] = "idle"
        /\ Len(hist) < MaxRecords
        /\ pending' = [pending EXCEPT ![t] = [self |-> self, text |-> text]]
        /\ pc' = [pc EXCEPT ![t] = "text"]
        /\ hist' = Append(hist, Emitted(self, text))
        /\ UNCHANGED <<loggers, default_logger, hostname, clock, setbacks,
                       buffer, written>>

\* Mutant: no sink takes a line in one step.
print_write_text_split(t) ==
    LET f == loggers[pending[t].self].file
    IN  /\ pc[t] = "text"
        /\ buffer' = [buffer EXCEPT ![f] = Append(@, TextChunk(pending[t].text))]
        /\ pc' = [pc EXCEPT ![t] = "end"]
        /\ UNCHANGED <<loggers, default_logger, hostname, clock, setbacks,
                       written, hist, last, made, options, pending>>

\* print() writes the text; a sink that takes whole lines atomically gets
\* the line end in the same step.
print_write_text(t) ==
    LET f == loggers[pending[t].self].file
    IN  /\ pc[t] = "text"
        /\ IF f \in AtomicSinks
           THEN /\ buffer' = [buffer EXCEPT ![f] =
                                @ \o <<TextChunk(pending[t].text), NL>>]
                /\ pc' = [pc EXCEPT ![t] = "flush"]
           ELSE /\ buffer' = [buffer EXCEPT ![f] =
                                Append(@, TextChunk(pending[t].text))]
                /\ pc' = [pc EXCEPT ![t] = "end"]
        /\ UNCHANGED <<loggers, default_logger, hostname, clock, setbacks,
                       written, hist, last, made, options, pending>>

\* print() writes the line end.
print_write_end(t) ==
    LET f == loggers[pending[t].self].file
    IN  /\ pc[t] = "end"
        /\ buffer' = [buffer EXCEPT ![f] = Append(@, NL)]
        /\ pc' = [pc EXCEPT ![t] = "flush"]
        /\ UNCHANGED <<loggers, default_logger, hostname, clock, setbacks,
                       written, hist, last, made, options, pending>>

\* print() flushes if asked to, and returns.
print_flush(t) ==
    LET f == loggers[pending[t].self].file
    IN  /\ pc[t] = "flush"
        /\ IF loggers[pending[t].self].flush
           THEN /\ written' = [written EXCEPT ![f] = @ \o buffer[f]]
                /\ buffer' = [buffer EXCEPT ![f] = <<>>]
           ELSE UNCHANGED <<buffer, written>>
        /\ pc' = [pc EXCEPT ![t] = "idle"]
        /\ pending' = [pending EXCEPT ![t] = NoPending]
        /\ UNCHANGED <<loggers, default_logger, hostname, clock, setbacks,
                       hist, last, made, options>>

ThreadMethodMsg(t) ==
    \E self \in DOMAIN loggers :
        /\ Thread_log(t, self, msg_msg("d1", "ERROR"))
        /\ Called("Logger.log_msg", self, "d1", "ERROR", "")

ThreadFreeRead(t) ==
    /\ Thread_log(t, default_logger, read_msg("d1", "h1"))
    /\ Called("log_read", default_logger, "d1", "", "h1")

\* ------------------------------------------------------- specifications
\* A single-threaded client of every emitting operation, method and
\* module-level, with all payloads, handles and types.
NextApi ==
    \/ MethodPreamble(Data) \/ MethodRead(Data, Handles)
    \/ MethodWrite(Data, Handles) \/ MethodMsg(Data, MsgTypes)
    \/ MethodMsgDefault(Data) \/ MethodDebug(Data) \/ MethodInfo(Data)
    \/ MethodWarning(Data) \/ MethodError(Data) \/ MethodSummary(Data)
    \/ FreePreamble(Data) \/ FreeRead(Data, Handles)
    \/ FreeWrite(Data, Handles) \/ FreeMsg(Data, MsgTypes)
    \/ FreeMsgDefault(Data) \/ FreeDebug(Data) \/ FreeInfo(Data)
    \/ FreeWarning(Data) \/ FreeError(Data) \/ FreeSummary(Data)

SpecApi == Init /\ [][NextApi]_vars

\* A single-threaded client that emits through every operation, replaces
\* the default logger and keeps using the loggers it holds, on a machine
\* that can be renamed.
NextOptions ==
    \/ MethodPreamble({"d1"}) \/ MethodRead({"d1"}, {"h1"})
    \/ MethodWrite({"d1"}, {"h1"}) \/ MethodMsg({"d1"}, {"ERROR"})
    \/ MethodMsgDefault({"d1"}) \/ MethodDebug({"d1"}) \/ MethodInfo({"d1"})
    \/ MethodWarning({"d1"}) \/ MethodError({"d1"}) \/ MethodSummary({"d1"})
    \/ FreePreamble({"d1"}) \/ FreeRead({"d1"}, {"h1"})
    \/ FreeWrite({"d1"}, {"h1"}) \/ FreeMsg({"d1"}, {"ERROR"})
    \/ FreeMsgDefault({"d1"}) \/ FreeDebug({"d1"}) \/ FreeInfo({"d1"})
    \/ FreeWarning({"d1"}) \/ FreeError({"d1"}) \/ FreeSummary({"d1"})
    \/ SetOptions(Components)
    \/ SetHostname

SpecOptions == Init /\ [][NextOptions]_vars

\* A single-threaded client with loggers of its own, flushing and not, on
\* either sink, and sinks that empty their buffers when they choose.
NextFlush ==
    \/ MethodPreamble({"d1"}) \/ MethodRead({"d1"}, {"h1"})
    \/ MethodMsg({"d1"}, {"ERROR"}) \/ MethodDebug({"d1"})
    \/ FreeWrite({"d1"}, {"h1"}) \/ FreeMsgDefault({"d1"})
    \/ \E fl \in BOOLEAN, f \in Sinks : NewLogger("fsck", fl, f)
    \/ SinkDrain

SpecFlush == Init /\ [][NextFlush]_vars

\* A single-threaded client emitting through two loggers while the wall
\* clock runs and is adjusted.
NextClock ==
    \/ MethodMsg({"d1"}, {"ERROR"})
    \/ FreePreamble({"d1"})
    \/ NewLogger("fsck", FALSE, "stderr")
    \/ Tick
    \/ ClockSetBack

SpecClock == Init /\ [][NextClock]_vars

\* Two threads emitting with no synchronisation, through the default
\* logger and through a flushing logger on either sink.
NextThreads ==
    \/ \E t \in Threads : ThreadMethodMsg(t)
    \/ \E t \in Threads : ThreadFreeRead(t)
    \/ \E t \in Threads : print_write_text(t)
    \/ \E t \in Threads : print_write_end(t)
    \/ \E t \in Threads : print_flush(t)
    \/ \E f \in Sinks : NewLogger("fsck", TRUE, f)

SpecThreads == Init /\ [][NextThreads]_vars

\* ----------------------------------------------------------------- claims
\* The record of the last emission, parsed.
LastRecord == loads(hist[Len(hist)].text)

\* The step is an emission.
Emits == hist' # hist

\* The emission step adds the line it was asked for to the sink of the
\* logger called, after the lines already there, and to no other sink.
AppendsOneLine ==
    LET f == loggers[last'.self].file
        old == Lines(Stream(f))
        new == Lines(written'[f] \o buffer'[f])
    IN  /\ Len(new) = Len(old) + 1
        /\ SubSeq(new, 1, Len(old)) = old
        /\ Len(new[Len(new)]) = 1
        /\ new[Len(new)][1] = hist'[Len(hist')].text
        /\ Rest(written'[f] \o buffer'[f]) = <<>>
        /\ \A g \in Sinks \ {f} :
            written'[g] = written[g] /\ buffer'[g] = buffer[g]

\* The type a module-level function is to give its record.
FreeType ==
    [log_debug |-> "debug", log_info |-> "info", log_warning |-> "warning",
     log_error |-> "error", log_summary |-> "summary"]

\* C1: a module-level log_debug, log_info, log_warning, log_error or
\* log_summary emits a record of the type it is named for, and a
\* module-level log_msg(D, T) emits a record of type T.
C1_FreeFunctionTypes ==
    /\ last.op \in DOMAIN FreeType => LastRecord["type"] = FreeType[last.op]
    /\ (last.op = "log_msg" /\ last.type_ # "") =>
            LastRecord["type"] = MessageType[last.type_]

\* C2: one call of Logger.log_msg(D, T) adds exactly one line to the
\* logger's sink and changes no line already there; the line's record has
\* type T (info when no type is given) and data D.
C2_LogMsgOneLine ==
    [][(Emits /\ last'.op = "Logger.log_msg") =>
        /\ AppendsOneLine
        /\ LET r == loads(hist'[Len(hist')].text)
           IN  /\ r["type"] = IF last'.type_ = "" THEN "info"
                              ELSE MessageType[last'.type_]
               /\ r["data"] = last'.data]_vars

C2_Witness ==
    /\ last.op = "Logger.log_msg"
    /\ last.type_ = "SUMMARY"
    /\ Len(hist) = 2
    /\ Len(Lines(Stream(hist[2].file))) = 2
    /\ LastRecord["type"] = "summary"
    /\ LastRecord["data"] = last.data

PreambleOps == {"Logger.log_preamble", "log_preamble"}
ReadOps == {"Logger.log_read", "log_read"}
WriteOps == {"Logger.log_write", "log_write"}

\* C4 as stated: a record of log_preamble has type preamble, data D, host
\* and timestamp and no component; every other record has a component.
C4_PreambleWithoutComponent ==
    Len(hist) > 0 =>
        IF last.op \in PreambleOps
        THEN /\ DOMAIN LastRecord = {"type", "data", "host", "timestamp"}
             /\ LastRecord["type"] = "preamble"
             /\ LastRecord["data"] = last.data
        ELSE "component" \in DOMAIN LastRecord

\* C4 amended: a record of log_preamble has type preamble, data D, host,
\* timestamp and, as every other record, the component of its logger.
C4_PreambleFields ==
    Len(hist) > 0 =>
        /\ "component" \in DOMAIN LastRecord
        /\ LastRecord["component"] = loggers[last.self].component
        /\ last.op \in PreambleOps =>
            /\ DOMAIN LastRecord =
                    {"type", "data", "host", "timestamp", "component"}
            /\ LastRecord["type"] = "preamble"
            /\ LastRecord["data"] = last.data

C4_Witness ==
    /\ last.op = "log_preamble"
    /\ Len(hist) = 2
    /\ LastRecord["type"] = "preamble"
    /\ LastRecord["component"] = "root"

\* C5: log_read(D, H) and log_write(D, H), method or module-level, each
\* add exactly one record, of type read and write, with data D and handle
\* H; the records of all other operations have no handle.
C5_ReadWriteHandle ==
    [][Emits =>
        LET r == loads(hist'[Len(hist')].text)
        IN  IF last'.op \in ReadOps \cup WriteOps
            THEN /\ AppendsOneLine
                 /\ r["type"] = IF last'.op \in ReadOps THEN "read"
                                ELSE "write"
                 /\ r["data"] = last'.data
                 /\ r["handle"] = last'.handle
            ELSE "handle" \notin DOMAIN r]_vars

C5_Witness ==
    /\ last.op = "log_read"
    /\ Len(hist) = 2
    /\ LastRecord["type"] = "read"
    /\ LastRecord["handle"] = "h2"
    /\ LastRecord["data"] = "d1"
    /\ "handle" \notin DOMAIN loads(hist[1].text)

FreeOps ==
    {"log_preamble", "log_msg", "log_read", "log_write", "log_debug",
     "log_info", "log_warning", "log_error", "log_summary"}

\* The texts of the emissions that went to sink f, in order, one per line.
EmittedTo(f) ==
    LET at == {i \in DOMAIN hist : hist[i].file = f}
        nth(k) == CHOOSE i \in at : Cardinality({j \in at : j <= i}) = k
    IN  [k \in 1..Cardinality(at) |-> <<hist[nth(k)].text>>]

\* C3: whatever was emitted and however often set_options was called, the
\* records in every sink are those emitted to it, and every record has
\* type, data, component, host and timestamp, its component and host
\* being those its Logger instance was constructed with, also after the
\* machine was renamed.
C3_RecordIdentity ==
    /\ \A f \in Sinks : Lines(Stream(f)) = EmittedTo(f) /\ Rest(Stream(f)) = <<>>
    /\ \A i \in DOMAIN hist :
        LET r == loads(hist[i].text)
        IN  /\ {"type", "data", "component", "host", "timestamp"}
                    \subseteq DOMAIN r
            /\ r["component"] = made[hist[i].self].component
            /\ r["host"] = made[hist[i].self].host

C3_Witness ==
    /\ Len(hist) = 2
    /\ Len(options) = 1
    /\ hist[1].self = 1 /\ hist[2].self = 1
    /\ LastRecord["host"] = "hostA"
    /\ LastRecord["component"] = "root"
    /\ hostname = "hostB"
    /\ last.op = "Logger.log_preamble"

\* C6: once set_options(component=C) was called, a record emitted through
\* a module-level function carries the component C of the latest such
\* call; and no step takes anything away from what a sink was given (what
\* it held stays a prefix of what it holds).
C6_OptionsTakeEffect ==
    [][/\ (Emits /\ last'.op \in FreeOps /\ options # <<>>) =>
            loads(hist'[Len(hist')].text)["component"]
                = options[Len(options)]
       /\ \A f \in Sinks :
            /\ Len(Stream(f)) <= Len(written'[f] \o buffer'[f])
            /\ SubSeq(written'[f] \o buffer'[f], 1, Len(Stream(f)))
                    = Stream(f)]_vars

C6_Witness ==
    /\ options = <<"fsck">>
    /\ Len(hist) = 2
    /\ last.op = "log_warning"
    /\ loads(hist[1].text)["component"] = "root"
    /\ LastRecord["component"] = "fsck"
    /\ Len(Stream("stderr")) = 4

\* C7: set_options changes no Logger instance that exists, no sink and no
\* record; an instance held from before emits with the component and host
\* it was constructed with, to the sink it was constructed with.
C7_OptionsFrame ==
    [][/\ Len(options') > Len(options) =>
            /\ \A i \in DOMAIN loggers :
                i \in DOMAIN loggers' /\ loggers'[i] = loggers[i]
            /\ buffer' = buffer /\ written' = written /\ hist' = hist
       /\ \A i \in DOMAIN made : loggers[i] = made[i]
       /\ (Emits /\ Len(options) > 0 /\ last'.self # default_logger) =>
            LET r == loads(hist'[Len(hist')].text)
                f == made[last'.self].file
            IN  /\ r["component"] = made[last'.self].component
                /\ r["host"] = made[last'.self].host
                /\ Len(written'[f] \o buffer'[f]) = Len(Stream(f)) + 2
                /\ (written'[f] \o buffer'[f])[Len(Stream(f)) + 1]
                        = TextChunk(hist'[Len(hist')].text)]_vars

C7_Witness ==
    /\ options = <<"fsck">>
    /\ default_logger = 2
    /\ hostname = "hostB"
    /\ loggers[2].host = "hostB"
    /\ last.op = "Logger.log_error"
    /\ last.self = 1
    /\ LastRecord["component"] = "root"
    /\ LastRecord["host"] = "hostA"
    /\ loggers[1] = [host |-> "hostA", component |-> "root",
                     flush |-> FALSE, file |-> "stderr"]

\* C8: when an emission of a Logger constructed with flush = TRUE returns,
\* its line, text and line end, is the end of what the underlying sink
\* holds and the sink's buffer is empty; an emission of a Logger
\* constructed with flush = FALSE leaves the underlying sink as it was and
\* its line at the end of the buffer.
C8_FlushPolicy ==
    [][Emits =>
        LET f == made[last'.self].file
            line == <<TextChunk(hist'[Len(hist')].text), NL>>
        IN  IF made[last'.self].flush
            THEN /\ buffer'[f] = <<>>
                 /\ written'[f] = written[f] \o buffer[f] \o line
            ELSE /\ written' = written
                 /\ buffer'[f] = buffer[f] \o line]_vars

C8_Witness ==
    /\ Len(hist) = 2
    /\ ~made[hist[1].self].flush
    /\ made[hist[2].self].flush
    /\ hist[1].file = "stderr" /\ hist[2].file = "file"
    /\ buffer["stderr"] = <<TextChunk(hist[1].text), NL>>
    /\ written["stderr"] = <<>>
    /\ buffer["file"] = <<>>
    /\ written["file"] = <<TextChunk(hist[2].text), NL>>

Timestamp(i) == loads(hist[i].text)["timestamp"]

\* C9 as stated: of two records emitted by one Logger instance, the later
\* has a timestamp greater than or equal to the earlier one's.
C9_TimestampsMonotonic ==
    \A i, j \in DOMAIN hist :
        (i < j /\ hist[i].self = hist[j].self) =>
            TsLeq(Timestamp(i), Timestamp(j))

\* C9 amended: a record's timestamp is the wall-clock reading at its
\* emission, and it is greater than or equal to the timestamp of every
\* earlier record of the same Logger instance since when the wall clock
\* was not set back.
C9_TimestampsFollowClock ==
    [][Emits =>
        LET ts == loads(hist'[Len(hist')].text)["timestamp"]
        IN  /\ ts = isoformat(clock)
            /\ \A i \in DOMAIN hist :
                (hist[i].self = last'.self /\ hist[i].epoch = setbacks) =>
                    TsLeq(Timestamp(i), ts)]_vars

C9_Witness ==
    /\ Len(hist) = 2
    /\ hist[1].self = hist[2].self
    /\ hist[1].epoch = 1 /\ hist[2].epoch = 1
    /\ Timestamp(1) = <<0, 500000>>
    /\ Timestamp(2) = <<1>>

EmittedTexts == {hist[i].text : i \in DOMAIN hist}

\* C10: in a sink that takes each line in one atomic step, every line is
\* exactly one complete record that was emitted, whatever the threads do;
\* in a sink that does not, the texts and line ends of two emissions can
\* interleave (C10_Witness is such a state).
C10_AtomicLinesWhole ==
    \A f \in AtomicSinks :
        /\ Rest(Stream(f)) = <<>>
        /\ \A k \in DOMAIN Lines(Stream(f)) :
            /\ Len(Lines(Stream(f))[k]) = 1
            /\ Lines(Stream(f))[k][1] \in EmittedTexts

C10_Witness ==
    /\ Len(hist) = 2
    /\ hist[1].file = "stderr" /\ hist[2].file = "stderr"
    /\ \E k \in DOMAIN Lines(Stream("stderr")) :
        Len(Lines(Stream("stderr"))[k]) = 2
    /\ \E k \in DOMAIN Lines(Stream("stderr")) :
        Len(Lines(Stream("stderr"))[k]) = 0
    /\ \A t \in Threads : pc[t] = "idle"

====
